---- MODULE Spec2Model ----
(***************************************************************************)
(* TyphosDeviceDisplay (src/typhos/display.py): template resolution and    *)
(* composition of the display of one ophyd device.                         *)
(*                                                                         *)
(* The display object is one record of its attributes; every method is an *)
(* operator from that record to the record after the call.  The record     *)
(* also carries the trace of the call in progress (log entries, escaping   *)
(* exception, number of resolves and of layout clears, largest number of   *)
(* widgets mounted at once), so that what a call did is visible in the     *)
(* state it leaves.                                                        *)
(***************************************************************************)
EXTENDS Integers, Sequences, FiniteSets, TLC

VARIABLES
    phase,              \* "new": no display yet; "ready": constructed; "failed": the constructor or factory raised
    files,              \* the optional files that exist right now (the live filesystem)
    _forced_template,   \* self._forced_template: '' or a path
    _macros,            \* self._macros: dict of str -> str
    _main_widget,       \* self._main_widget: None or a widget
    _display_type,      \* self._display_type: a DisplayTypes member
    templates,          \* self.templates: view name -> list of paths
    _current_template,  \* self._current_template: unset, None or a path
    devices,            \* self.devices: list of devices
    layout,             \* the widgets mounted in self.layout(), in order
    op,                 \* the last step: its name, what it returned, its arguments (device, value or
                        \* template, macros), and whether it repeats search_for_templates
    log,                \* the levels of the log entries the last step emitted, warning and above
    raised,             \* the exception that escaped the last step, "" if none
    resolves,           \* how many times the last step ran load_best_template past its guard
    teardowns,          \* how many times the last step cleared the layout
    peak,               \* the largest number of widgets mounted at once during the last step
    removed             \* the devices the last step removed from self.devices

vars == <<phase, files, _forced_template, _macros, _main_widget, _display_type,
          templates, _current_template, devices, layout, op, log, raised,
          resolves, teardowns, peak, removed>>

----------------------------------------------------------------------------
(* Bounds of the model *)

\* devices are numbered 1..NumDevices; 0 stands for "no device"
NumDevices == 2

----------------------------------------------------------------------------
(* class DisplayTypes(enum.IntEnum) *)

embedded_screen == 0
detailed_screen == 1
engineering_screen == 2

\* iteration order of "for type_ in DisplayTypes"
DisplayTypes == <<embedded_screen, detailed_screen, engineering_screen>>

DisplayTypeSet == {DisplayTypes[i] : i \in 1..Len(DisplayTypes)}

\* type_.name
name(display_type) ==
    CASE display_type = embedded_screen -> "embedded_screen"
      [] display_type = detailed_screen -> "detailed_screen"
      [] display_type = engineering_screen -> "engineering_screen"

ViewNames == {name(t) : t \in DisplayTypeSet}

\* A DisplayTypes member used as a dict key hashes and compares as its int
\* value: it is a key different from every str, its own name included.
EnumKey(display_type) == "<DisplayTypes." \o name(display_type) \o ">"

\* view = display_type.name, with the '_screen' suffix split off
view_of(display_type) ==
    CASE display_type = embedded_screen -> "embedded"
      [] display_type = detailed_screen -> "detailed"
      [] display_type = engineering_screen -> "engineering"

----------------------------------------------------------------------------
(* Python values *)

\* None, where a path is expected
None == "None"

\* an attribute that was never assigned: reading it raises AttributeError
Unset == "<unset>"

\* an empty dict
EmptyDict == [k \in {} |-> ""]

\* an optional dict argument: None, or a dict
NoneArg == [isNone |-> TRUE, d |-> EmptyDict]
DictArg(d) == [isNone |-> FALSE, d |-> d]

\* "not macros": None and the empty dict are both falsy
Falsy(arg) == arg.isNone \/ DOMAIN arg.d = {}

\* d[k] = v
SetItem(d, k, v) == [x \in DOMAIN d \cup {k} |-> IF x = k THEN v ELSE d[x]]

----------------------------------------------------------------------------
(* The environment: filesystem, template loader, devices *)

ui_dir == "/ui"

\* DEFAULT_TEMPLATES: one built-in template per display type, in utils.ui_dir
DEFAULT_TEMPLATES ==
    [n \in ViewNames |-> <<ui_dir \o "/" \o n \o ".ui">>]

\* files that may or may not exist at any moment
OptionalFiles ==
    {ui_dir \o "/Motor_detailed.ui", "/tmp/custom.ui"}

\* files that always exist
AlwaysFiles ==
    {DEFAULT_TEMPLATES[n][1] : n \in ViewNames}
        \cup {ui_dir \o "/Device_detailed.ui", "/tmp/broken.ui", "/tmp/screen.py"}

\* files that exist but that the template loader cannot parse
Malformed == {"/tmp/broken.ui"}

\* templates holding a descendant widget whose add_device needs device.prefix
NeedsPrefix == {"/tmp/screen.py"}

\* value.exists() and value.is_file()
IsFile(path, fs) == path \in fs \cup AlwaysFiles

\* pathlib.Path(value).resolve(): a relative path is anchored at the working directory
resolve(value) ==
    IF value \in {"custom.ui"} THEN "/tmp/" \o value ELSE value

\* os.path.splitext(filename)[1]
splitext_ext(filename) ==
    IF filename \in {"/tmp/screen.py"} THEN ".py"
    ELSE IF filename = "" THEN "" ELSE ".ui"

\* the template loader (load_py_file, pydm.Display) raises on a missing or malformed file
LoaderRaises(filename, fs) == ~IsFile(filename, fs) \/ filename \in Malformed

Devices == 1..NumDevices

\* device.__class__.__name__
DeviceClass(device) == IF device % 2 = 1 THEN "Motor" ELSE "Device"

\* device.name
DeviceName(device) == "dev" \o ToString(device)

\* hasattr(device, 'prefix'), device.prefix
HasPrefix(device) == device % 2 = 1
DevicePrefix(device) == "PV:" \o ToString(device)

\* hasattr(device, 'md'), device.md.post()
HasMd(device) == device % 2 = 0
DeviceMd(device) ==
    [name |-> "happi" \o ToString(device), beamline |-> "B" \o ToString(device)]

\* widget.add_device(device) of a descendant widget raises
PropagateRaises(filename, device) == filename \in NeedsPrefix /\ ~HasPrefix(device)

\* the class and its ancestors, most derived first
Ancestors(cls) ==
    IF cls = "Motor" THEN <<"Motor", "Device">> ELSE <<cls>>

----------------------------------------------------------------------------
(* Widgets and the layout *)

\* self._main_widget = None
NoWidget == [kind |-> "None", path |-> "", device |-> 0, partial |-> FALSE, children |-> <<>>]

\* QtWidgets.QWidget(): the blank placeholder
QWidget == [kind |-> "QWidget", path |-> "", device |-> 0, partial |-> FALSE, children |-> <<>>]

\* kinds of descendant widgets: base is isinstance(w, utils.TyphosBase),
\* designer is isinstance(w, widgets.TyphosDesignerMixin), display is
\* hasattr(w, 'set_device_display')
TitleWidget == [base |-> TRUE, designer |-> TRUE, display |-> TRUE]
PanelWidget == [base |-> TRUE, designer |-> TRUE, display |-> FALSE]
BaseWidget == [base |-> TRUE, designer |-> FALSE, display |-> FALSE]
MixinWidget == [base |-> FALSE, designer |-> TRUE, display |-> TRUE]
PlainWidget == [base |-> FALSE, designer |-> FALSE, display |-> FALSE]

\* the descendant widgets of the subtree loaded from filename, in the order
\* findChildren walks them
Descendants(filename) ==
    IF filename = "/tmp/custom.ui" THEN <<PlainWidget>>
    ELSE IF filename = "/tmp/screen.py" THEN <<PlainWidget, MixinWidget, BaseWidget>>
    ELSE <<TitleWidget, PlainWidget, PanelWidget, BaseWidget>>

\* the widget subtree a template loader returns for filename: no descendant
\* has been given a device or a display yet
Loaded(filename) ==
    [kind |-> IF splitext_ext(filename) = ".py" THEN "py" ELSE "Display",
     path |-> filename, device |-> 0, partial |-> FALSE,
     children |-> [i \in 1..Len(Descendants(filename)) |-> [devices |-> <<>>, displays |-> 0]]]

\* utils.clear_layout(layout): takes every item out of the layout
clear_layout(items) == SubSeq(items, 1, 0)

\* TyphosBase.add_device(device): the device joins self.devices
TyphosBase_add_device(devs, device) == Append(devs, device)

Max(a, b) == IF a >= b THEN a ELSE b

\* self.layout().addWidget(widget)
addWidget(s, widget) ==
    [s EXCEPT !.layout = Append(@, widget),
              !.peak = Max(@, Len(s.layout) + 1)]

----------------------------------------------------------------------------
(* The display object *)

\* the display with its attributes as they are now, at the start of a call
Self ==
    [hasLayout |-> phase = "ready",
     _forced_template |-> _forced_template,
     _macros |-> _macros,
     _main_widget |-> _main_widget,
     _display_type |-> _display_type,
     templates |-> templates,
     _current_template |-> _current_template,
     devices |-> devices,
     layout |-> layout,
     log |-> <<>>,
     raised |-> "",
     resolves |-> 0,
     teardowns |-> 0,
     peak |-> Len(layout),
     removed |-> <<>>]

\* the attributes assigned at the top of __init__, before any layout exists
Fresh ==
    [hasLayout |-> FALSE,
     _forced_template |-> "",
     _macros |-> EmptyDict,
     _main_widget |-> NoWidget,
     _display_type |-> detailed_screen,
     templates |-> [n \in ViewNames |-> <<>>],
     _current_template |-> Unset,
     devices |-> <<>>,
     layout |-> <<>>,
     log |-> <<>>,
     raised |-> "",
     resolves |-> 0,
     teardowns |-> 0,
     peak |-> 0,
     removed |-> <<>>]

Log(s, level) == [s EXCEPT !.log = Append(@, level)]

\* the device property: the only element of self.devices, else None (0)
device_of(s) == IF Len(s.devices) = 1 THEN s.devices[1] ELSE 0

\* LET x == value IN F(x), with value computed once
Bind(value, F(_)) == CHOOSE y \in {F(x) : x \in {value}} : TRUE

\* get_best_template(display_type, macros): the first template of the list,
\* else a warning and None
get_best_template(s, display_type, macros) ==
    IF s.templates[name(display_type)] # <<>>
    THEN [ret |-> s.templates[name(display_type)][1], st |-> s]
    ELSE [ret |-> None, st |-> Log(s, "warning")]

\* main.findChildren(cls): the descendants of that class, as positions in
\* Descendants(filename); cls is "base" or "designer"
RECURSIVE findChildren(_, _, _)
findChildren(filename, cls, from) ==
    IF from > Len(Descendants(filename)) THEN <<>>
    ELSE (IF (cls = "base" /\ Descendants(filename)[from].base)
             \/ (cls = "designer" /\ Descendants(filename)[from].designer)
          THEN <<from>> ELSE <<>>) \o findChildren(filename, cls, from + 1)

\* the widgets of seq with their duplicates: a list where the code has a set
widget_list(seq) == seq

\* set(seq): every widget of seq once.  The order a set iterates in is not
\* modelled: what one widget is given does not depend on the others.
RECURSIVE widget_set(_)
widget_set(seq) ==
    IF seq = <<>> THEN <<>>
    ELSE IF \E i \in 2..Len(seq) : seq[i] = Head(seq)
    THEN widget_set(Tail(seq))
    ELSE <<Head(seq)>> \o widget_set(Tail(seq))

\* for widget in widgets: widget.add_device(device), and
\* widget.set_device_display(self) if the widget has that method
RECURSIVE give_device(_, _, _, _)
give_device(children, widgets, device, filename) ==
    IF widgets = <<>> THEN children
    ELSE give_device(
            [children EXCEPT ![Head(widgets)] =
                [devices |-> Append(@.devices, device),
                 displays |-> IF Descendants(filename)[Head(widgets)].display
                              THEN @.displays + 1 ELSE @.displays]],
            Tail(widgets), device, filename)

\* the descendants of the new main widget get the device: exc is TRUE when
\* one of them raised, st is the display as the exception left it (the
\* subtree it leaves half done is dropped by the handler)
propagate_device(s, filename) ==
    IF s.devices = <<>>
    THEN [exc |-> FALSE, st |-> s]
    ELSE IF PropagateRaises(filename, s.devices[1])
    THEN [exc |-> TRUE,
          st |-> [s EXCEPT !._main_widget.device = s.devices[1],
                           !._main_widget.partial = TRUE]]
    ELSE [exc |-> FALSE,
          st |-> [s EXCEPT !._main_widget.device = s.devices[1],
                           !._main_widget.children =
                               give_device(@,
                                   widget_set(findChildren(filename, "base", 1)
                                              \o findChildren(filename, "designer", 1)),
                                   s.devices[1], filename)]]

\* _load_template(filename): exc is TRUE when the loader or a descendant's
\* add_device raised; st is the display as the exception left it
_load_template(s, filename, fs) ==
    IF LoaderRaises(filename, fs)
    THEN [exc |-> TRUE, st |-> s]
    ELSE propagate_device([s EXCEPT !._main_widget = Loaded(filename)], filename)

\* clear_existing without the call of utils.clear_layout
clear_existing_keeps_layout(s) ==
    IF s._main_widget # NoWidget
    THEN [s EXCEPT !.teardowns = @ + 1, !.resolves = @ + 1]
    ELSE [s EXCEPT !.resolves = @ + 1]

\* load_best_template, first part: clear anything that exists in the layout
clear_existing(s) ==
    IF s._main_widget # NoWidget
    THEN [s EXCEPT !.layout = clear_layout(@), !.teardowns = @ + 1,
                   !.resolves = @ + 1]
    ELSE [s EXCEPT !.resolves = @ + 1]

\* choose_template with the precedence reversed: the first template of the
\* active list wins over the forced one
choose_template_list_first(s, macros) ==
    IF s.templates[name(s._display_type)] # <<>> \/ s._forced_template = ""
    THEN get_best_template([s EXCEPT !._macros = IF Falsy(macros) THEN @ ELSE macros.d],
                           s._display_type,
                           IF Falsy(macros) THEN s._macros ELSE macros.d)
    ELSE [ret |-> s._forced_template,
          st |-> [s EXCEPT !._macros = IF Falsy(macros) THEN @ ELSE macros.d]]

\* load_best_template, second part: self._macros = macros or self._macros,
\* then the forced template or else the best one
choose_template(s, macros) ==
    IF s._forced_template # ""
    THEN [ret |-> s._forced_template,
          st |-> [s EXCEPT !._macros = IF Falsy(macros) THEN @ ELSE macros.d]]
    ELSE get_best_template([s EXCEPT !._macros = IF Falsy(macros) THEN @ ELSE macros.d],
                           s._display_type,
                           IF Falsy(macros) THEN s._macros ELSE macros.d)

\* mount_loaded with a handler that leaves current_template on the path
\* that failed
mount_loaded_keeps_path(r, template) ==
    IF ~r.exc
    THEN addWidget([r.st EXCEPT !._current_template = template], r.st._main_widget)
    ELSE addWidget([Log(r.st, "error") EXCEPT !._main_widget = QWidget,
                                             !._current_template = template],
                   QWidget)

\* load_best_template, the except, else and finally clauses around
\* _load_template(template), whose outcome is r
mount_loaded(r, template) ==
    IF ~r.exc
    THEN addWidget([r.st EXCEPT !._current_template = template], r.st._main_widget)
    ELSE IF r.st._current_template = Unset
    THEN \* the handler reads self.current_template: AttributeError; the
         \* finally clause still runs addWidget(self._main_widget), and
         \* addWidget(None) is a TypeError that mounts nothing
         IF r.st._main_widget = NoWidget
         THEN [r.st EXCEPT !.raised = "TypeError"]
         ELSE [addWidget(r.st, r.st._main_widget) EXCEPT !.raised = "AttributeError"]
    ELSE addWidget([Log(r.st, "error") EXCEPT !._main_widget = QWidget,
                                             !._current_template = None],
                   QWidget)

\* load_chosen with a no-template branch that leaves current_template alone
load_chosen_keeps_current(c, fs) ==
    IF c.ret = None
    THEN [c.st EXCEPT !._main_widget = QWidget]
    ELSE Bind(_load_template(c.st, c.ret, fs), LAMBDA r : mount_loaded(r, c.ret))

\* load_best_template, after the template is chosen: the blank widget when
\* there is none, else the load and the mount
load_chosen(c, fs) ==
    IF c.ret = None
    THEN [c.st EXCEPT !._main_widget = QWidget, !._current_template = None]
    ELSE Bind(_load_template(c.st, c.ret, fs), LAMBDA r : mount_loaded(r, c.ret))

\* load_best_template(macros)
load_best_template(s, macros, fs) ==
    IF ~s.hasLayout
    THEN s
    ELSE Bind(clear_existing(s), LAMBDA s2 :
         Bind(choose_template(s2, macros), LAMBDA c : load_chosen(c, fs)))

\* the display_type setter without its comparison: every assignment resolves
set_display_type_unguarded(s, value, fs) ==
    Bind([s EXCEPT !._display_type = value], LAMBDA s1 :
         load_best_template(s1, DictArg(s1._macros), fs))

\* the display_type setter
set_display_type(s, value, fs) ==
    IF s._display_type # value
    THEN Bind([s EXCEPT !._display_type = value], LAMBDA s1 :
              load_best_template(s1, DictArg(s1._macros), fs))
    ELSE s

\* what one pass of the loop of _get_templates_from_macros does for
\* display_type: "" when the try block ends normally, else the exception
macro_lookup(s, display_type) ==
    IF EnumKey(display_type) \notin DOMAIN s._macros
    THEN ""                  \* KeyError, swallowed
    ELSE "AttributeError"    \* self._templates_from_macros is assigned nowhere

\* _get_templates_from_macros(macros): the macros argument is not read; the
\* lookup is in self._macros, by the enum member
_get_templates_from_macros(s, macros) ==
    IF \A i \in 1..Len(DisplayTypes) : macro_lookup(s, DisplayTypes[i]) = ""
    THEN [exc |-> "", ret |-> [n \in ViewNames |-> None]]
    ELSE [exc |-> "AttributeError", ret |-> [n \in ViewNames |-> None]]

\* the template files of directory for one class name and view, by extension
candidates(directory, cls, view) ==
    <<directory \o "/" \o cls \o "_" \o view \o ".ui",
      directory \o "/" \o cls \o "_" \o view \o ".py">>

\* the elements of seq that satisfy IsFile, in order
RECURSIVE existing(_, _)
existing(seq, fs) ==
    IF seq = <<>> THEN <<>>
    ELSE (IF IsFile(Head(seq), fs) THEN <<Head(seq)>> ELSE <<>>) \o existing(Tail(seq), fs)

\* the concatenation of f(x) over the elements of seq
RECURSIVE flat_map(_, _)
flat_map(f(_), seq) ==
    IF seq = <<>> THEN <<>> ELSE f(Head(seq)) \o flat_map(f, Tail(seq))

\* utils.find_templates_for_class(cls, view, directories): every existing
\* file, by directory, then ancestor (most derived first), then extension
find_templates_for_class(cls, view, directories, fs) ==
    LET in_dir(directory) ==
            LET of_cls(c) == existing(candidates(directory, c, view), fs)
            IN  flat_map(of_cls, Ancestors(cls))
    IN  flat_map(in_dir, directories)

\* for filename in filenames: if filename not in template_list: append
RECURSIVE append_new(_, _)
append_new(template_list, filenames) ==
    IF filenames = <<>> THEN template_list
    ELSE append_new(
            IF \E i \in 1..Len(template_list) : template_list[i] = Head(filenames)
            THEN template_list
            ELSE Append(template_list, Head(filenames)),
            Tail(filenames))

\* one pass of the loop of search_for_templates: the new list of display_type
template_list_for(cls, display_type, macro_templates, fs) ==
    append_new(
        append_new(
            \* 1. highest priority: macros
            IF macro_templates[name(display_type)] # None
            THEN <<macro_templates[name(display_type)]>>
            ELSE <<>>,
            \* 2. templates based on class hierarchy names
            find_templates_for_class(cls, view_of(display_type), <<ui_dir>>, fs)),
        \* 3. default templates
        DEFAULT_TEMPLATES[name(display_type)])

\* the display type of a name
by_name(n) == CHOOSE t \in DisplayTypeSet : name(t) = n

\* search_for_device without template_list.clear() and the membership
\* tests: every call extends the lists
search_for_device_extends(s, device, fs) ==
    [s EXCEPT !.templates =
        [n \in ViewNames |->
            @[n] \o template_list_for(DeviceClass(device), by_name(n),
                                      [v \in ViewNames |-> None], fs)]]

\* search_for_templates(), for the device that is bound
search_for_device(s, device, fs) ==
    Bind(_get_templates_from_macros(s, DictArg(s._macros)), LAMBDA mt :
        IF mt.exc # ""
        THEN [s EXCEPT !.raised = mt.exc]
        ELSE [s EXCEPT !.templates =
                [n \in ViewNames |->
                    template_list_for(DeviceClass(device), by_name(n), mt.ret, fs)]])

\* search_for_templates without the return for a display that has no device
search_for_templates_unguarded(s, fs) ==
    search_for_device(s, device_of(s), fs)

\* search_for_templates()
search_for_templates(s, fs) ==
    IF device_of(s) = 0
    THEN s
    ELSE search_for_device(s, device_of(s), fs)

\* the force_template setter without the resolve: the value is only stored
set_force_template_no_resolve(s, value, fs) ==
    IF value # s._forced_template
    THEN [s EXCEPT !._forced_template = value]
    ELSE s

\* the force_template setter with a search for templates before the resolve
set_force_template_searches(s, value, fs) ==
    IF value # s._forced_template
    THEN Bind(search_for_templates([s EXCEPT !._forced_template = value], fs), LAMBDA s1 :
              load_best_template(s1, DictArg(s1._macros), fs))
    ELSE s

\* the force_template setter
set_force_template(s, value, fs) ==
    IF value # s._forced_template
    THEN Bind([s EXCEPT !._forced_template = value], LAMBDA s1 :
              load_best_template(s1, DictArg(s1._macros), fs))
    ELSE s

\* effective_macros with 'name' assigned unconditionally
effective_macros_overwrites(device, macros) ==
    LET m0 == IF ~Falsy(macros) THEN macros.d
              ELSE IF HasMd(device) THEN DeviceMd(device)
              ELSE EmptyDict
        m1 == SetItem(m0, "name", DeviceName(device))
    IN  IF "prefix" \notin DOMAIN m1 /\ HasPrefix(device)
        THEN SetItem(m1, "prefix", DevicePrefix(device))
        ELSE m1

\* the macros add_device ends up with: the argument, else device.md.post(),
\* else a new dict; then 'name' and 'prefix' where missing
effective_macros(device, macros) ==
    LET m0 == IF ~Falsy(macros) THEN macros.d
              ELSE IF HasMd(device) THEN DeviceMd(device)
              ELSE EmptyDict
        m1 == IF "name" \notin DOMAIN m0 THEN SetItem(m0, "name", DeviceName(device)) ELSE m0
    IN  IF "prefix" \notin DOMAIN m1 /\ HasPrefix(device)
        THEN SetItem(m1, "prefix", DevicePrefix(device))
        ELSE m1

\* bind_device without the clear: the new device joins the old one
bind_device_keeps_old(s, device) ==
    [s EXCEPT !.devices = TyphosBase_add_device(@, device)]

\* add_device, first part: the device replaces any bound one
bind_device(s, device) ==
    [s EXCEPT !.devices = TyphosBase_add_device(IF @ # <<>> THEN <<>> ELSE @, device),
              !.removed = @ \o s.devices]

\* add_device(device, macros)
add_device(s, device, macros, fs) ==
    Bind(bind_device(s, device), LAMBDA s2 :
    Bind(search_for_templates(s2, fs), LAMBDA s3 :
        IF s3.raised # ""
        THEN s3
        ELSE load_best_template(s3, DictArg(effective_macros(device, macros)), fs)))

\* __init__, up to the layout: style is the template a stylesheet of the
\* application forces on the new widget while the base classes initialise,
\* '' if none
init_base(style, fs) ==
    IF style # "" THEN set_force_template(Fresh, style, fs) ELSE Fresh

\* __init__(parent)
init(style, fs) ==
    Bind(init_base(style, fs), LAMBDA s1 :
        load_best_template([s1 EXCEPT !.hasLayout = TRUE], NoneArg, fs))

\* from_device, after cls(): the template is forced if given ('' for None),
\* then the device is added
from_device_on(display, device, template, macros, fs) ==
    IF display.raised # ""
    THEN display
    ELSE Bind(IF template # "" THEN set_force_template(display, template, fs)
              ELSE display,
              LAMBDA d1 : IF d1.raised # "" THEN d1
                          ELSE add_device(d1, device, macros, fs))

\* from_device(device, template, macros)
from_device(style, device, template, macros, fs) ==
    Bind(init(style, fs), LAMBDA display :
        from_device_on(display, device, template, macros, fs))

\* from_class(klass, template=, macros=): klass is the device that
\* get_instance_by_name builds, 0 when it raises.  ret is what the call
\* returns: "display", "None", or "" when an exception escapes
from_class(style, klass, template, macros, fs) ==
    IF klass = 0
    THEN \* the handler formats obj, which was never bound
         [ret |-> "", st |-> [Fresh EXCEPT !.raised = "UnboundLocalError"]]
    ELSE Bind(from_device(style, klass, template, macros, fs), LAMBDA d :
            [ret |-> IF d.raised = "" THEN "display" ELSE "", st |-> d])

----------------------------------------------------------------------------
(* Inputs *)

\* the templates a stylesheet may force before the display has a layout
Styles == {"", "/tmp/custom.ui", "/tmp/broken.ui"}

\* the values callers assign to force_template
ForceValues == {"", "/tmp/custom.ui", "/tmp/broken.ui", "/tmp/screen.py"}

\* the macros arguments callers pass
MacroArgs ==
    {NoneArg,
     DictArg(EmptyDict),
     DictArg([detailed_screen |-> "/tmp/custom.ui"]),
     DictArg([name |-> "alias", detailed_screen |-> ui_dir \o "/Device_detailed.ui"]),
     DictArg([prefix |-> "SIM:"])}

----------------------------------------------------------------------------
(* The state machine *)

\* the display r, with the trace of the call, becomes the state
AssignFields(r) ==
    /\ _forced_template' = r._forced_template
    /\ _macros' = r._macros
    /\ _main_widget' = r._main_widget
    /\ _display_type' = r._display_type
    /\ templates' = r.templates
    /\ _current_template' = r._current_template
    /\ devices' = r.devices
    /\ layout' = r.layout
    /\ log' = r.log
    /\ raised' = r.raised
    /\ resolves' = r.resolves
    /\ teardowns' = r.teardowns
    /\ peak' = r.peak
    /\ removed' = r.removed

\* the call was opname and returned ret ("display", "None", or "" for
\* nothing or for an exception)
Assign(r, opname, ret) ==
    /\ AssignFields(r)
    /\ op' = [again |-> FALSE, name |-> opname, ret |-> ret, device |-> 0, value |-> "", macros |-> NoneArg]

\* no display exists yet
Init ==
    /\ phase = "new"
    /\ files = {}
    /\ _forced_template = Fresh._forced_template
    /\ _macros = Fresh._macros
    /\ _main_widget = Fresh._main_widget
    /\ _display_type = Fresh._display_type
    /\ templates = Fresh.templates
    /\ _current_template = Fresh._current_template
    /\ devices = Fresh.devices
    /\ layout = Fresh.layout
    /\ log = <<>>
    /\ raised = ""
    /\ resolves = 0
    /\ teardowns = 0
    /\ peak = 0
    /\ removed = <<>>
    /\ op = [again |-> FALSE, name |-> "", ret |-> "", device |-> 0, value |-> "", macros |-> NoneArg]

\* TyphosDeviceDisplay(parent)
Construct ==
    /\ phase = "new"
    /\ \E style \in Styles :
        \E r \in {init(style, files)} :
            /\ Assign(r, "__init__", IF r.raised = "" THEN "display" ELSE "")
            /\ phase' = IF r.raised = "" THEN "ready" ELSE "failed"
    /\ UNCHANGED files

\* TyphosDeviceDisplay.from_device(device, template, macros)
FromDevice ==
    /\ phase = "new"
    /\ \E style \in Styles, device \in Devices, template \in ForceValues, macros \in MacroArgs :
        \E r \in {from_device(style, device, template, macros, files)} :
            /\ AssignFields(r)
            /\ op' = [again |-> FALSE, name |-> "from_device", device |-> device,
                      value |-> template, macros |-> macros,
                      ret |-> IF r.raised = "" THEN "display" ELSE ""]
            /\ phase' = IF r.raised = "" THEN "ready" ELSE "failed"
    /\ UNCHANGED files

\* TyphosDeviceDisplay.from_class(klass, template=template, macros=macros)
FromClass ==
    /\ phase = "new"
    /\ \E style \in Styles, klass \in {0} \cup Devices, template \in ForceValues, macros \in MacroArgs :
        \E r \in {from_class(style, klass, template, macros, files)} :
            /\ AssignFields(r.st)
            /\ op' = [again |-> FALSE, name |-> "from_class", ret |-> r.ret, device |-> klass,
                      value |-> template, macros |-> macros]
            /\ phase' = IF r.ret = "display" THEN "ready" ELSE "failed"
    /\ UNCHANGED files

\* display.display_type = value
SetDisplayType ==
    /\ phase = "ready"
    /\ \E value \in DisplayTypeSet :
        \E r \in {set_display_type(Self, value, files)} : Assign(r, "display_type", "")
    /\ UNCHANGED <<phase, files>>

\* display.force_template = value
SetForceTemplate ==
    /\ phase = "ready"
    /\ \E value \in ForceValues :
        \E r \in {set_force_template(Self, value, files)} :
            /\ AssignFields(r)
            /\ op' = [again |-> FALSE, name |-> "force_template", ret |-> "", device |-> 0,
                      value |-> value, macros |-> NoneArg]
    /\ UNCHANGED <<phase, files>>

\* an action of the context menu: switch_template sets force_template to a
\* file name of the template lists
SwitchTemplate ==
    /\ phase = "ready"
    /\ \E n \in ViewNames :
        \E i \in 1..Len(templates[n]) :
            \E r \in {set_force_template(Self, templates[n][i], files)} :
                /\ AssignFields(r)
                /\ op' = [again |-> FALSE, name |-> "force_template", ret |-> "", device |-> 0,
                          value |-> templates[n][i], macros |-> NoneArg]
    /\ UNCHANGED <<phase, files>>

\* display.add_device(device, macros)
AddDevice ==
    /\ phase = "ready"
    /\ \E device \in Devices, macros \in MacroArgs :
        \E r \in {add_device(Self, device, macros, files)} :
            /\ AssignFields(r)
            /\ op' = [again |-> FALSE, name |-> "add_device", ret |-> "", device |-> device,
                      value |-> "", macros |-> macros]
    /\ UNCHANGED <<phase, files>>

\* display.search_for_templates()
SearchForTemplates ==
    /\ phase = "ready"
    /\ \E r \in {search_for_templates(Self, files)} :
        /\ AssignFields(r)
        /\ op' = [again |-> op.name = "search_for_templates",
                  name |-> "search_for_templates", ret |-> "", device |-> 0,
                  value |-> "", macros |-> NoneArg]
    /\ UNCHANGED <<phase, files>>

\* the filesystem changes under the program: a file appears
Touch ==
    /\ phase # "failed"
    /\ \E f \in OptionalFiles \ files : files' = files \cup {f}
    /\ op' = [again |-> FALSE, name |-> "fs", ret |-> "", device |-> 0, value |-> "", macros |-> NoneArg]
    /\ log' = <<>> /\ raised' = "" /\ resolves' = 0 /\ teardowns' = 0
    /\ peak' = Len(layout) /\ removed' = <<>>
    /\ UNCHANGED <<phase, _forced_template, _macros, _main_widget, _display_type,
                   templates, _current_template, devices, layout>>

\* the filesystem changes under the program: a file disappears
Remove ==
    /\ phase # "failed"
    /\ \E f \in files : files' = files \ {f}
    /\ op' = [again |-> FALSE, name |-> "fs", ret |-> "", device |-> 0, value |-> "", macros |-> NoneArg]
    /\ log' = <<>> /\ raised' = "" /\ resolves' = 0 /\ teardowns' = 0
    /\ peak' = Len(layout) /\ removed' = <<>>
    /\ UNCHANGED <<phase, _forced_template, _macros, _main_widget, _display_type,
                   templates, _current_template, devices, layout>>

Next ==
    \/ Construct
    \/ FromDevice
    \/ FromClass
    \/ SetDisplayType
    \/ SetForceTemplate
    \/ SwitchTemplate
    \/ AddDevice
    \/ SearchForTemplates
    \/ Touch
    \/ Remove

Spec == Init /\ [][Next]_vars


----------------------------------------------------------------------------
(* Vocabulary of the claims *)

\* the template list of the active view
Active == templates[name(_display_type)]

\* the path a resolve in this state chooses
Chosen ==
    IF _forced_template # "" THEN _forced_template
    ELSE IF Active # <<>> THEN Active[1] ELSE None

\* the loader loads filename, and the bound device propagates into it
Loadable(filename) ==
    /\ ~LoaderRaises(filename, files)
    /\ devices = <<>> \/ ~PropagateRaises(filename, devices[1])

\* the macro candidate of a view as the specification has it: the macro keyed
\* by the view's name, resolved, if it is an existing regular file
expected_macro(macros, display_type, fs) ==
    IF /\ name(display_type) \in DOMAIN macros
       /\ IsFile(resolve(macros[name(display_type)]), fs)
    THEN <<resolve(macros[name(display_type)])>>
    ELSE <<>>

\* the list of a view as the specification has it: macro candidate, hierarchy
\* candidates, built-in default, the first occurrence of a path winning
expected_list(cls, display_type, macros, fs) ==
    append_new(
        append_new(expected_macro(macros, display_type, fs),
                   find_templates_for_class(cls, view_of(display_type), <<ui_dir>>, fs)),
        DEFAULT_TEMPLATES[name(display_type)])

----------------------------------------------------------------------------
(* C1 *)

\* C1: after construction and after every completed resolve the layout holds
\* exactly one mounted widget, the no-template case included.
C1_ExactlyOneMounted ==
    phase = "ready" => Len(layout) = 1

----------------------------------------------------------------------------
(* C2 *)

----------------------------------------------------------------------------
(* C3 *)

\* C3: a resolve whose chosen template fails to load does not raise, leaves
\* current_template None and exactly the blank placeholder mounted.
C3_FailureContained ==
    (resolves > 0 /\ Chosen # None /\ ~Loadable(Chosen)) =>
        /\ raised = ""
        /\ _current_template = None
        /\ _main_widget = QWidget
        /\ layout = <<QWidget>>

----------------------------------------------------------------------------
(* C4 *)

\* C4 as claimed: with a device bound and a forced template that fails to
\* load, the first entry of the active list is loaded and becomes
\* current_template, the placeholder being for the case that it fails too.
C4_ListAfterFailedOverride ==
    (/\ phase = "ready" /\ resolves > 0 /\ devices # <<>>
     /\ _forced_template # "" /\ ~Loadable(_forced_template)
     /\ Active # <<>>) =>
        IF Loadable(Active[1])
        THEN _current_template = Active[1]
        ELSE _current_template = None /\ layout = <<QWidget>>

\* C4 as amended: with no forced template the first entry of the active list
\* governs, the placeholder being mounted when it fails to load; with a
\* device bound and a forced template that fails to load the list is not
\* tried: current_template is None and the placeholder is mounted.
C4_OverrideFailureFallsBack ==
    (phase = "ready" /\ resolves > 0) =>
        /\ (_forced_template = "" /\ Active # <<>>) =>
              IF Loadable(Active[1])
              THEN /\ _current_template = Active[1]
                   /\ layout = <<_main_widget>>
                   /\ _main_widget.path = Active[1]
              ELSE _current_template = None /\ layout = <<QWidget>>
        /\ (devices # <<>> /\ _forced_template # "" /\ ~Loadable(_forced_template)) =>
              _current_template = None /\ layout = <<QWidget>>

\* a failed forced template over a list whose first entry would have loaded
C4_Witness ==
    /\ phase = "ready" /\ resolves > 0 /\ devices # <<>>
    /\ _forced_template # "" /\ ~Loadable(_forced_template)
    /\ Active # <<>> /\ Loadable(Active[1])
    /\ _current_template = None /\ layout = <<QWidget>>

----------------------------------------------------------------------------
(* C5 *)

\* C5: after search_for_templates with a device bound every list is the macro
\* candidate, then the hierarchy candidates in search order, then the
\* built-in default, each path once at the place of its first source.
C5_MergeOrder ==
    (phase = "ready" /\ op.name = "search_for_templates" /\ devices # <<>>) =>
        \A t \in DisplayTypeSet :
            templates[name(t)] = expected_list(DeviceClass(devices[1]), t, _macros, files)

----------------------------------------------------------------------------
(* C6 *)

\* C6: add_device does not raise; a macro keyed by a view's name whose value
\* is an existing regular file is the first entry of that view's list, and
\* otherwise the list holds no macro candidate.
C6_MacroFirst ==
    (phase = "ready" /\ op.name = "add_device") =>
        /\ raised = ""
        /\ \A t \in DisplayTypeSet :
              IF expected_macro(_macros, t, files) # <<>>
              THEN /\ templates[name(t)] # <<>>
                   /\ templates[name(t)][1] = expected_macro(_macros, t, files)[1]
              ELSE templates[name(t)] =
                       expected_list(DeviceClass(devices[1]), t, EmptyDict, files)

----------------------------------------------------------------------------
(* C7 *)

\* C7: at most one device is ever bound; after add_device(d2) exactly d2 is
\* bound, the layout was cleared and holds only the widget of this call, and
\* the stored macros are those of d2 and of the call.
C7_SingleDevice ==
    /\ Len(devices) <= 1
    /\ (phase = "ready" /\ op.name = "add_device") =>
          /\ raised = ""
          /\ devices = <<op.device>>
          /\ teardowns = 1
          /\ layout = <<_main_widget>>
          /\ _main_widget = QWidget \/ _main_widget.device = op.device
          /\ \E m \in MacroArgs : _macros = effective_macros(op.device, m)

\* device 2 bound over device 1
C7_Witness ==
    /\ phase = "ready" /\ op.name = "add_device"
    /\ removed = <<1>> /\ devices = <<2>>
    /\ _main_widget.device = 2

----------------------------------------------------------------------------
(* C8 *)

\* C8: from_class does not raise when the device cannot be built: it logs the
\* failure and returns None; when the device is built it returns the display
\* of from_device for that device.
C8_FromClassContained ==
    op.name = "from_class" =>
        IF op.device = 0
        THEN raised = "" /\ op.ret = "None" /\ log = <<"error">>
        ELSE raised = "" => (op.ret = "display" /\ devices = <<op.device>>)

----------------------------------------------------------------------------
(* C9 *)

\* C9: when add_device returns, every list is the merge for the class of the
\* new device and the macros of this call.
C9_RecomputedOnBind ==
    (phase = "ready" /\ op.name = "add_device" /\ raised = "") =>
        \A t \in DisplayTypeSet :
            templates[name(t)] =
                expected_list(DeviceClass(op.device), t, _macros, files)

----------------------------------------------------------------------------
(* C10 *)

\* C10: assigning display_type a different value stores it and resolves once,
\* with the macros unchanged; assigning the current value does nothing at all.
C10_DisplayTypeSetter ==
    [][op'.name = "display_type" =>
        IF _display_type' # _display_type
        THEN resolves' = 1 /\ _macros' = _macros
        ELSE /\ resolves' = 0 /\ teardowns' = 0 /\ log' = <<>>
             /\ UNCHANGED <<_forced_template, _macros, _main_widget, templates,
                            _current_template, devices, layout>>]_vars

\* the current value assigned again over a mounted template
C10_Witness ==
    /\ op.name = "display_type" /\ resolves = 0
    /\ layout # <<>> /\ _current_template \notin {None, Unset}

----------------------------------------------------------------------------
(* C11 *)

\* C11: assigning force_template a value different from the current one
\* stores it and resolves once; when the value is '' (an override is cleared)
\* that resolve chooses the first entry of the active list: it becomes
\* current_template if it loads, and with an empty list there is no template.
C11_ForceTemplateSetter ==
    [][op'.name = "force_template" =>
        /\ op'.value # _forced_template =>
              /\ _forced_template' = op'.value
              /\ resolves' = 1
        /\ (op'.value = "" /\ _forced_template # "") =>
              IF Active' = <<>>
              THEN _current_template' = None /\ _main_widget' = QWidget
              ELSE IF Loadable(Active[1])'
              THEN /\ _current_template' = Active'[1]
                   /\ _main_widget'.path = Active'[1]
              ELSE _current_template' = None /\ log' = <<"error">>]_vars

\* an override cleared over a list of several: the first entry is back
C11_Witness ==
    /\ op.name = "force_template" /\ op.value = "" /\ resolves = 1
    /\ _forced_template = "" /\ Len(Active) >= 2
    /\ _current_template = Active[1] /\ layout = <<_main_widget>>

----------------------------------------------------------------------------
(* C12 *)

\* C12: search_for_templates called again right after search_for_templates,
\* with the device, the macros and the filesystem as they were, does not
\* raise and leaves the template list of every view as the first call left it.
C12_SearchDeterministic ==
    [][(op.name = "search_for_templates" /\ op'.name = "search_for_templates") =>
        /\ raised' = ""
        /\ devices' = devices /\ _macros' = _macros /\ files' = files
        /\ \A t \in DisplayTypeSet : templates'[name(t)] = templates[name(t)]]_vars

\* the second of two searches in a row, for a device whose active list has
\* hierarchy candidates besides the default
C12_Witness ==
    /\ op.name = "search_for_templates" /\ op.again
    /\ devices # <<>> /\ Len(Active) >= 2

----------------------------------------------------------------------------
(* C13 *)

\* where the macros of add_device(op.device, op.macros) come from: the
\* argument if given and not empty, else the metadata of the device if it has
\* any, else nothing
C13_Source ==
    IF ~op.macros.isNone /\ DOMAIN op.macros.d # {} THEN op.macros.d
    ELSE IF HasMd(op.device) THEN DeviceMd(op.device)
    ELSE EmptyDict

\* C13: after add_device the stored macros hold every entry of their source
\* (argument, else device metadata, else nothing) unchanged, a 'name' that is
\* device.name unless the source has one, a 'prefix' that is device.prefix
\* when the device has a prefix and the source has none, and nothing else.
C13_EffectiveMacros ==
    (phase = "ready" /\ op.name = "add_device") =>
        /\ raised = ""
        /\ \A k \in DOMAIN C13_Source : k \in DOMAIN _macros /\ _macros[k] = C13_Source[k]
        /\ "name" \in DOMAIN _macros
        /\ "name" \notin DOMAIN C13_Source => _macros["name"] = DeviceName(op.device)
        /\ HasPrefix(op.device) => "prefix" \in DOMAIN _macros
        /\ "prefix" \notin DOMAIN C13_Source =>
              IF HasPrefix(op.device)
              THEN _macros["prefix"] = DevicePrefix(op.device)
              ELSE "prefix" \notin DOMAIN _macros
        /\ DOMAIN _macros \subseteq DOMAIN C13_Source \cup {"name", "prefix"}

\* a device with a prefix added with macros that supply a name and no prefix
C13_Witness ==
    /\ phase = "ready" /\ op.name = "add_device"
    /\ HasPrefix(op.device) /\ ~op.macros.isNone
    /\ "name" \in DOMAIN op.macros.d /\ "prefix" \notin DOMAIN op.macros.d
    /\ _macros["name"] = op.macros.d["name"] /\ _macros["name"] # DeviceName(op.device)
    /\ _macros["prefix"] = DevicePrefix(op.device)

----------------------------------------------------------------------------
(* C14 *)

\* the error-level entries among the log entries of the last step
ErrorEntries == {i \in 1..Len(log) : log[i] = "error"}

\* C14: a step that resolves once logs exactly one error-level entry when the
\* load of the chosen template fails and none when it succeeds or when there
\* is no template to choose; force_template set to a path that does not exist
\* ends with current_template None, the blank placeholder mounted and
\* exactly one error-level entry.
C14_OneErrorPerFailedLoad ==
    /\ resolves = 1 =>
          Cardinality(ErrorEntries) =
              IF Chosen # None /\ ~Loadable(Chosen) THEN 1 ELSE 0
    /\ (resolves = 1 /\ _forced_template # "" /\ ~IsFile(_forced_template, files)) =>
          /\ _current_template = None
          /\ layout = <<QWidget>>
          /\ Cardinality(ErrorEntries) = 1

----------------------------------------------------------------------------
(* C15 *)

\* C15: at no moment of any step, between steps or within a resolve, does
\* the layout hold more than one widget: what was mounted is taken out
\* before the new subtree or placeholder is added.
C15_NoDoubleMount ==
    /\ peak <= 1
    /\ Len(layout) <= 1
    /\ \A i \in 1..Len(layout) : layout[i] = _main_widget

\* a change of view with a device bound: one loaded template replaces another
C15_Witness ==
    /\ op.name = "display_type" /\ resolves = 1 /\ teardowns = 1
    /\ devices # <<>> /\ _current_template = Active[1]
    /\ layout = <<_main_widget>> /\ _main_widget.path = Active[1] /\ peak = 1

----------------------------------------------------------------------------
(* C16 *)

\* descendant i of the subtree of filename is a device consumer
Consumer(filename, i) ==
    Descendants(filename)[i].base \/ Descendants(filename)[i].designer

\* C16: after a resolve that loaded a template, with a device bound every
\* descendant that is a device consumer was given the bound device exactly
\* once, and the display exactly once if it accepts one and not at all if it
\* does not, and every other descendant was given nothing; with no device
\* bound no descendant was given anything.
C16_DevicePropagated ==
    (phase = "ready" /\ resolves > 0 /\ _current_template # None) =>
        /\ _main_widget.path = _current_template
        /\ Len(_main_widget.children) = Len(Descendants(_current_template))
        /\ \A i \in 1..Len(_main_widget.children) :
              IF devices # <<>> /\ Consumer(_current_template, i)
              THEN /\ _main_widget.children[i].devices = devices
                   /\ _main_widget.children[i].displays =
                         IF Descendants(_current_template)[i].display THEN 1 ELSE 0
              ELSE /\ _main_widget.children[i].devices = <<>>
                   /\ _main_widget.children[i].displays = 0

\* a template whose descendants are consumers of both classes, of one class
\* and of none, loaded with a device bound
C16_Witness ==
    /\ phase = "ready" /\ resolves > 0 /\ devices # <<>>
    /\ _current_template \notin {None, Unset}
    /\ \E i, j, k \in 1..Len(_main_widget.children) :
          /\ Descendants(_current_template)[i].base
          /\ Descendants(_current_template)[i].designer
          /\ _main_widget.children[i].devices = devices
          /\ _main_widget.children[i].displays = 1
          /\ Consumer(_current_template, j)
          /\ ~Descendants(_current_template)[j].display
          /\ _main_widget.children[j].devices = devices
          /\ _main_widget.children[j].displays = 0
          /\ ~Consumer(_current_template, k)
          /\ _main_widget.children[k].devices = <<>>

\* a template loaded with no device bound: nothing is propagated
C16_WitnessNoDevice ==
    /\ phase = "ready" /\ resolves > 0 /\ devices = <<>>
    /\ _current_template \notin {None, Unset}

----------------------------------------------------------------------------
(* C17 *)

\* C17: once a resolve has completed, current_template is None and the main
\* widget is the blank placeholder, or it is the path the current main widget
\* was loaded from; right after a resolve that path is the one the resolve
\* chose (forced template, else first entry of the active list) and its load
\* succeeded.
C17_CurrentTemplateTracksWidget ==
    phase = "ready" =>
        /\ IF _current_template = None
           THEN _main_widget = QWidget
           ELSE /\ _current_template # Unset
                /\ _main_widget.kind \in {"Display", "py"}
                /\ _main_widget.path = _current_template
        /\ resolves > 0 =>
              _current_template =
                  IF Chosen # None /\ Loadable(Chosen) THEN Chosen ELSE None

\* an override is cleared with no device bound: the resolve finds no template
C17_Witness ==
    /\ phase = "ready" /\ op.name = "force_template" /\ op.value = ""
    /\ resolves = 1 /\ teardowns = 1 /\ log = <<"warning">>
    /\ _current_template = None /\ _main_widget = QWidget

----------------------------------------------------------------------------
(* C18 *)

\* C18: while no device is bound the template list of every view is empty,
\* also after search_for_templates; once a device is bound the list of every
\* view is non-empty and holds the built-in default of the view, and a
\* resolve then always has a template: it logs no "no templates" warning.
C18_ListsFollowDevice ==
    phase = "ready" =>
        /\ devices = <<>> =>
              \A t \in DisplayTypeSet : templates[name(t)] = <<>>
        /\ devices # <<>> =>
              \A t \in DisplayTypeSet :
                  /\ templates[name(t)] # <<>>
                  /\ \A k \in 1..Len(DEFAULT_TEMPLATES[name(t)]) :
                        \E i \in 1..Len(templates[name(t)]) :
                            templates[name(t)][i] = DEFAULT_TEMPLATES[name(t)][k]
        /\ (devices # <<>> /\ op.name \in {"add_device", "display_type", "force_template"}) =>
              /\ \A i \in 1..Len(log) : log[i] # "warning"
              /\ Chosen # None

\* a resolve with a device bound and no forced template: the list decides
C18_Witness ==
    /\ phase = "ready" /\ op.name = "display_type" /\ resolves = 1
    /\ devices # <<>> /\ _forced_template = ""
    /\ _current_template = Active[1] /\ log = <<>>

\* search_for_templates on a display with no device
C18_WitnessNoDevice ==
    /\ phase = "ready" /\ op.name = "search_for_templates" /\ devices = <<>>
    /\ \A t \in DisplayTypeSet : templates[name(t)] = <<>>

----------------------------------------------------------------------------
(* C19 *)

\* C19: an assignment of display_type or force_template leaves the bound
\* device, the stored macros and the template list of every view as they
\* were; the device and the macros change only in add_device (also as part
\* of the factories), and the lists only in search_for_templates or
\* add_device (also as part of the factories).
C19_Frame ==
    [][/\ op'.name \in {"display_type", "force_template"} =>
             /\ devices' = devices
             /\ _macros' = _macros
             /\ \A t \in DisplayTypeSet : templates'[name(t)] = templates[name(t)]
       /\ (devices' # devices \/ _macros' # _macros) =>
             op'.name \in {"add_device", "from_device", "from_class"}
       /\ templates' # templates =>
             op'.name \in {"add_device", "search_for_templates",
                           "from_device", "from_class"}]_vars

\* a resolve after force_template changed, over lists that a search would
\* change because the files have changed since they were computed
C19_Witness ==
    /\ phase = "ready" /\ op.name = "force_template" /\ resolves = 1
    /\ devices # <<>> /\ DOMAIN _macros # {}
    /\ \E t \in DisplayTypeSet :
          templates[name(t)] # expected_list(DeviceClass(devices[1]), t, EmptyDict, files)

----------------------------------------------------------------------------
(* C20 *)

\* C20: from_device(device, template, macros) returns a display whose only
\* device is that device; when template is given and loads, force_template
\* and current_template are template, the main widget is the subtree loaded
\* from it, and every device consumer in that subtree was given the device.
C20_FromDevice ==
    op.name = "from_device" =>
        /\ raised = "" /\ op.ret = "display"
        /\ devices = <<op.device>>
        /\ (op.value # "" /\ ~LoaderRaises(op.value, files)
                          /\ ~PropagateRaises(op.value, op.device)) =>
              /\ _forced_template = op.value
              /\ _current_template = op.value
              /\ layout = <<_main_widget>>
              /\ _main_widget.path = op.value
              /\ _main_widget.device = op.device
              /\ \A i \in 1..Len(_main_widget.children) :
                    Consumer(op.value, i) =>
                        _main_widget.children[i].devices = <<op.device>>

====
